---- MODULE Spec2Model ----
(***************************************************************************)
(* Model of src/main.py: the request handler analyze_ticker of the market  *)
(* analyzer backend (GET /analyze/{ticker}).  One request is followed from *)
(* the provider call to the HTTP answer.  The handler is one function; its *)
(* five numbered sections (fetch, normalize, indicators, forecast, return) *)
(* are the steps of the model, and an exception raised in a section ends   *)
(* the request at once with the status FastAPI gives it.                   *)
(*                                                                         *)
(* Library behaviour the handler relies on is modelled at the call site:   *)
(*   requests  raise_for_status raises for 400 <= status < 600 only;       *)
(*             json() raises requests' JSONDecodeError (a RequestException *)
(*             from 2.27 on, a plain ValueError before);                   *)
(*   pandas    from_dict(orient="index") keeps every key of the nested     *)
(*             dicts as a column, rename changes labels only, to_numeric   *)
(*             and to_datetime raise on what they cannot parse (their      *)
(*             default errors="raise");                                    *)
(*   pandas_ta the DataFrame accessor "ta" exists only when pandas_ta has  *)
(*             been imported in the process; main.py does not import it;   *)
(*             rsi/macd append nothing to a table shorter than their       *)
(*             lookback or without a close column;                         *)
(*   prophet   fit raises without a y column or with fewer than two        *)
(*             non-null y; make_future_dataframe is the history dates      *)
(*             followed by the next `periods` calendar days;               *)
(*   starlette JSONResponse renders with allow_nan=False and raises on NaN.*)
(* The numbers yhat, yhat_lower, yhat_upper of the fitted model are not    *)
(* represented: a forecast row is its date.                                *)
(***************************************************************************)
EXTENDS Integers, Sequences, FiniteSets

VARIABLES
    pc,            \* position of the handler: start, fetched, normalized, augmented, forecasted, done
    taRegistered,  \* process state: the pandas "ta" accessor is registered
    calls,         \* calls of requests.get made by this request
    resp,          \* what the provider call produced
    data,          \* response.json()["Time Series (Daily)"], line 45
    df,            \* the DataFrame of lines 52-65
    forecast,      \* forecast['ds'] of line 75
    status,        \* HTTP status of the answer, 0 while the request runs
    body,          \* body of the answer
    stagesRun,     \* pipeline sections entered so far
    failed,        \* section whose code raised, "none" otherwise
    raised         \* the exception it raised, "none" otherwise

vars == <<pc, taRegistered, calls, resp, data, df, forecast, status, body, stagesRun,
          failed, raised>>

(***************************************************************************)
(* Bounds and constants                                                    *)
(***************************************************************************)
\* most date entries in one provider payload (below the 14-row RSI lookback)
MaxRows == 3

\* model.make_future_dataframe(periods=90)
Periods == 90

(***************************************************************************)
(* Calendar: a date string "YYYY-MM-DD" is the triple <<y, m, d>>; a       *)
(* parsed date is its proleptic Gregorian day number.                      *)
(***************************************************************************)
IsLeap(y) == (y % 4 = 0 /\ y % 100 # 0) \/ y % 400 = 0

DaysInMonth(y, m) ==
    IF m = 2 THEN (IF IsLeap(y) THEN 29 ELSE 28)
    ELSE IF m \in {4, 6, 9, 11} THEN 30 ELSE 31

RECURSIVE DaysBeforeMonth(_, _)
DaysBeforeMonth(y, m) ==
    IF m <= 1 THEN 0 ELSE DaysBeforeMonth(y, m - 1) + DaysInMonth(y, m - 1)

\* a string pandas can parse as a date
ValidDate(s) == s[2] \in 1..12 /\ s[3] \in 1..DaysInMonth(s[1], s[2])

\* pd.to_datetime of one valid date string
ToDatetime(s) ==
    LET y1 == s[1] - 1
    IN  365 * y1 + (y1 \div 4) - (y1 \div 100) + (y1 \div 400)
        + DaysBeforeMonth(s[1], s[2]) + s[3]

(***************************************************************************)
(* Provider payloads                                                       *)
(***************************************************************************)
SixLabels == {"1. open", "2. high", "3. low", "4. close", "5. adjusted close", "6. volume"}

\* date strings a payload may use; 2024-02-30 is not a date
DateStrings == {<<2023, 12, 31>>, <<2024, 2, 29>>, <<2024, 3, 1>>, <<2024, 2, 30>>}

\* value strings and the number pd.to_numeric reads from each
NumericValue == [s \in {"0", "10", "11", "12"} |->
                    CASE s = "0" -> 0 [] s = "10" -> 10 [] s = "11" -> 11 [] s = "12" -> 12]

IsNumericString(s) == s \in DOMAIN NumericValue

FullEntry(close) == [l \in SixLabels |-> IF l = "4. close" THEN close ELSE "10"]

\* the field mappings a date entry may carry
FieldMappings ==
    { FullEntry("11"), FullEntry("12"),
      FullEntry("N/A"),
      [l \in SixLabels \cup {"7. dividend amount"} |->
          IF l = "4. close" THEN "11" ELSE IF l = "7. dividend amount" THEN "0" ELSE "10"],
      [l \in SixLabels \ {"4. close"} |-> "10"],
      [l \in SixLabels \ {"1. open"} |-> IF l = "4. close" THEN "12" ELSE "10"] }

\* sequences of at most n date entries with pairwise different keys (data is
\* a dict), in provider order
RECURSIVE EntrySeqs(_)
EntrySeqs(n) ==
    IF n = 0 THEN {<<>>}
    ELSE LET shorter == EntrySeqs(n - 1)
             Keys(s) == { s[i].date : i \in 1..Len(s) }
         IN  shorter \cup
             UNION { { Append(s, [date |-> d, fields |-> f]) :
                          d \in DateStrings \ Keys(s), f \in FieldMappings } :
                     s \in { t \in shorter : Len(t) = n - 1 } }

\* values found under "Time Series (Daily)": a mapping of date entries, or a
\* JSON value that is no mapping (string, number, null, non-empty list)
Payloads ==
    { [mapping |-> TRUE, entries |-> s] : s \in EntrySeqs(MaxRows) \ {<<>>} }
    \cup { [mapping |-> FALSE, entries |-> <<>>] }

NoData == [mapping |-> FALSE, entries |-> <<>>]

(***************************************************************************)
(* 1. Fetch Data (lines 36-49)                                             *)
(***************************************************************************)
\* final status codes the provider may answer with (a 3xx that requests does
\* not follow, such as 304, is handed to the caller as it is)
StatusCodes == {200, 304, 429, 500}

\* what requests.get may produce: an exception of the transport, or a response
ProviderOutcomes ==
    { [kind |-> k, code |-> 0, payload |-> "none", series |-> NoData] :
          k \in {"ConnectionError", "Timeout"} }
    \cup { [kind |-> "response", code |-> c, payload |-> p, series |-> NoData] :
               c \in StatusCodes, p \in {"NotJSON", "NonObject", "ObjectNoKey"} }
    \cup { [kind |-> "response", code |-> c, payload |-> "ObjectWithKey", series |-> d] :
               c \in StatusCodes, d \in Payloads }

\* subclasses of requests.exceptions.RequestException
RequestExceptions == {"ConnectionError", "Timeout", "HTTPError", "RequestsJSONDecodeError"}

\* variant: only server errors raise
RaiseForStatus_ServerOnly(code) == 500 <= code /\ code < 600

\* response.raise_for_status(): "Raises an error for bad responses (4xx or 5xx)"
RaiseForStatus(code) == 400 <= code /\ code < 600

\* the exceptions lines 43-45 can raise for an outcome; {} when data is bound.
\* A body that is not JSON raises requests' JSONDecodeError or, with requests
\* older than 2.27, json's own; subscripting a JSON value that is no object
\* raises TypeError.
FetchExceptions(r) ==
    IF r.kind # "response" THEN {r.kind}
    ELSE IF RaiseForStatus(r.code) THEN {"HTTPError"}
    ELSE IF r.payload = "NotJSON" THEN {"RequestsJSONDecodeError", "JSONDecodeError"}
    ELSE IF r.payload = "NonObject" THEN {"TypeError"}
    ELSE IF r.payload = "ObjectNoKey" THEN {"KeyError"}
    ELSE {}

\* variant: a failed call is tried once more
CallsIssued_Retry(r) == IF FetchExceptions(r) # {} THEN 2 ELSE 1

\* requests.get is called once, inside the try, with no loop around it
CallsIssued(r) == 1

\* variant: one except clause for both exceptions of the fetch
ExceptionStatus_OneClause(exc, stage) ==
    IF stage = "fetcher" /\ exc \in RequestExceptions \cup {"KeyError"} THEN 503 ELSE 500

\* variant: a last clause "except Exception" answering not-found, around the whole handler
ExceptionStatus_BroadNotFound(exc, stage) ==
    IF stage = "fetcher" /\ exc \in RequestExceptions THEN 503 ELSE 404

\* variant: the except clauses wrap the whole handler and every error is "provider" trouble
ExceptionStatus_BroadUnavailable(exc, stage) ==
    IF exc = "KeyError" THEN 404 ELSE 503

\* the status an exception ends the request with: the two except clauses guard
\* the fetch only; anything else reaches FastAPI, which answers 500
ExceptionStatus(exc, stage) ==
    IF stage = "fetcher" /\ exc \in RequestExceptions THEN 503
    ELSE IF stage = "fetcher" /\ exc = "KeyError" THEN 404
    ELSE 500

\* HTTPException(detail=...) is rendered as {"detail": ...}; an unhandled
\* exception as the plain text "Internal Server Error"
ErrorBody(st) ==
    IF st = 503 THEN [detail |-> "Error fetching data from provider"]
    ELSE IF st = 404 THEN [detail |-> "Could not find data for ticker"]
    ELSE [text |-> "Internal Server Error"]

\* an exception leaves the handler
Abort(exc, stage) ==
    /\ pc' = "done"
    /\ status' = ExceptionStatus(exc, stage)
    /\ body' = ErrorBody(ExceptionStatus(exc, stage))
    /\ failed' = stage
    /\ raised' = exc

FetchRaises ==
    /\ pc = "start"
    /\ \E r \in ProviderOutcomes : \E exc \in FetchExceptions(r) :
          /\ resp' = [kind |-> r.kind, code |-> r.code, payload |-> r.payload]
          /\ calls' = calls + CallsIssued(r)
          /\ Abort(exc, "fetcher")
    /\ stagesRun' = stagesRun \cup {"fetcher"}
    /\ UNCHANGED <<taRegistered, data, df, forecast>>

FetchOk ==
    /\ pc = "start"
    /\ \E r \in ProviderOutcomes :
          /\ FetchExceptions(r) = {}
          /\ resp' = [kind |-> r.kind, code |-> r.code, payload |-> r.payload]
          /\ calls' = calls + CallsIssued(r)
          /\ data' = r.series
    /\ pc' = "fetched"
    /\ stagesRun' = stagesRun \cup {"fetcher"}
    /\ UNCHANGED <<taRegistered, df, forecast, status, body, failed, raised>>

(***************************************************************************)
(* 2. Process Data with Pandas (lines 52-60)                               *)
(* A table is its set of column labels and its rows in order; a row is its *)
(* index value and its cells; a cell is <<v>>, or <<>> when missing (NaN). *)
(***************************************************************************)
EmptyTable == [columns |-> {}, rows |-> <<>>]

\* pd.DataFrame.from_dict(data, orient="index"): one row per key, one column
\* per field label found in any entry, NaN where an entry lacks the label
FromDict(entries) ==
    LET cols == UNION { DOMAIN entries[i].fields : i \in 1..Len(entries) }
    IN  [columns |-> cols,
         rows |-> [i \in 1..Len(entries) |->
                     [idx |-> entries[i].date,
                      cells |-> [c \in cols |->
                                   IF c \in DOMAIN entries[i].fields
                                   THEN <<entries[i].fields[c]>> ELSE <<>>]]]]

\* variant: the adjusted-close key is misspelt, so that column keeps its label
RenameLabel_Misspelt(c) ==
    CASE c = "1. open" -> "open"
      [] c = "2. high" -> "high"
      [] c = "3. low" -> "low"
      [] c = "4. close" -> "close"
      [] c = "6. volume" -> "volume"
      [] OTHER -> c

\* the mapping given to df.rename(columns=...); other labels are left alone
RenameLabel(c) ==
    CASE c = "1. open" -> "open"
      [] c = "2. high" -> "high"
      [] c = "3. low" -> "low"
      [] c = "4. close" -> "close"
      [] c = "5. adjusted close" -> "adj_close"
      [] c = "6. volume" -> "volume"
      [] OTHER -> c

RenameColumns(t) ==
    LET cols == { RenameLabel(c) : c \in t.columns }
        Old(n) == CHOOSE c \in t.columns : RenameLabel(c) = n
    IN  [columns |-> cols,
         rows |-> [i \in 1..Len(t.rows) |->
                     [idx |-> t.rows[i].idx,
                      cells |-> [n \in cols |-> t.rows[i].cells[Old(n)]]]]]

\* pd.to_numeric with its default errors="raise"
ToNumericRaises(t) ==
    \E i \in 1..Len(t.rows) : \E c \in t.columns :
        t.rows[i].cells[c] # <<>> /\ ~IsNumericString(t.rows[i].cells[c][1])

ApplyToNumeric(t) ==
    [columns |-> t.columns,
     rows |-> [i \in 1..Len(t.rows) |->
                 [idx |-> t.rows[i].idx,
                  cells |-> [c \in t.columns |->
                               IF t.rows[i].cells[c] = <<>> THEN <<>>
                               ELSE <<NumericValue[t.rows[i].cells[c][1]]>>]]]]

\* pd.to_datetime(df.index) with its default errors="raise"
ToDatetimeRaises(t) == \E i \in 1..Len(t.rows) : ~ValidDate(t.rows[i].idx)

ToDatetimeIndex(t) ==
    [columns |-> t.columns,
     rows |-> [i \in 1..Len(t.rows) |->
                 [idx |-> ToDatetime(t.rows[i].idx), cells |-> t.rows[i].cells]]]

\* df.sort_index(ascending=True)
InsertRow(row, sorted) ==
    LET before == { i \in 1..Len(sorted) : sorted[i].idx <= row.idx }
        k == Cardinality(before)
    IN  SubSeq(sorted, 1, k) \o <<row>> \o SubSeq(sorted, k + 1, Len(sorted))

RECURSIVE SortRows(_)
SortRows(rows) ==
    IF rows = <<>> THEN <<>>
    ELSE InsertRow(rows[Len(rows)], SortRows(SubSeq(rows, 1, Len(rows) - 1)))

\* variant: the sort is left out
SortIndex_Unsorted(t) == t

SortIndex(t) == [columns |-> t.columns, rows |-> SortRows(t.rows)]

\* the exception section 2 raises for a payload, "none" when it completes
NormalizeException(d) ==
    IF ~d.mapping THEN "AttributeError"
    ELSE IF ToNumericRaises(RenameColumns(FromDict(d.entries))) THEN "ValueError"
    ELSE IF ToDatetimeRaises(FromDict(d.entries)) THEN "DateParseError"
    ELSE "none"

NormalizedTable(d) ==
    SortIndex(ToDatetimeIndex(ApplyToNumeric(RenameColumns(FromDict(d.entries)))))

NormalizeRaises ==
    /\ pc = "fetched"
    /\ NormalizeException(data) # "none"
    /\ Abort(NormalizeException(data), "normalizer")
    /\ stagesRun' = stagesRun \cup {"normalizer"}
    /\ UNCHANGED <<taRegistered, calls, resp, data, df, forecast>>

Normalize ==
    /\ pc = "fetched"
    /\ NormalizeException(data) = "none"
    /\ df' = NormalizedTable(data)
    /\ pc' = "normalized"
    /\ stagesRun' = stagesRun \cup {"normalizer"}
    /\ UNCHANGED <<taRegistered, calls, resp, data, forecast, status, body, failed, raised>>

(***************************************************************************)
(* 3. Calculate Technical Indicators (lines 64-65)                         *)
(***************************************************************************)
\* df.ta raises AttributeError unless the accessor has been registered
AugmentRaises ==
    /\ pc = "normalized"
    /\ ~taRegistered
    /\ Abort("AttributeError", "augmenter")
    /\ stagesRun' = stagesRun \cup {"augmenter"}
    /\ UNCHANGED <<taRegistered, calls, resp, data, df, forecast>>

\* with fewer rows than the lookback of either indicator, rsi and macd return
\* nothing and append=True adds no column
Augment ==
    /\ pc = "normalized"
    /\ taRegistered
    /\ pc' = "augmented"
    /\ stagesRun' = stagesRun \cup {"augmenter"}
    /\ UNCHANGED <<taRegistered, calls, resp, data, df, forecast, status, body, failed, raised>>

(***************************************************************************)
(* 4. Create & Run Forecast (lines 69-75)                                  *)
(***************************************************************************)
\* rows of prophet_df whose y (the close column) is not null
NonNullY(t) == { i \in 1..Len(t.rows) : t.rows[i].cells["close"] # <<>> }

\* model.fit(prophet_df)
FitRaises(t) ==
    IF "close" \notin t.columns THEN TRUE ELSE Cardinality(NonNullY(t)) < 2

RECURSIVE SortedSeq(_)
SortedSeq(S) ==
    IF S = {} THEN <<>>
    ELSE LET m == CHOOSE x \in S : \A y \in S : x <= y
         IN  <<m>> \o SortedSeq(S \ {m})

\* the dates the model keeps of the frame it was fitted on
HistoryDates(t) == SortedSeq({ t.rows[i].idx : i \in 1..Len(t.rows) })

\* variant: the last history date is counted as the first of the periods
MakeFutureDataframe_Inclusive(t, periods) ==
    LET h == SortedSeq({ t.rows[i].idx : i \in 1..Len(t.rows) })
        last == h[Len(h)]
    IN  h \o [k \in 1..(periods - 1) |-> last + k]

\* model.make_future_dataframe(periods): the history dates, then the next
\* `periods` days after the last of them
MakeFutureDataframe(t, periods) ==
    LET h == HistoryDates(t)
        last == h[Len(h)]
    IN  h \o [k \in 1..periods |-> last + k]

ForecastRaises ==
    /\ pc = "augmented"
    /\ FitRaises(df)
    /\ Abort("ValueError", "forecaster")
    /\ stagesRun' = stagesRun \cup {"forecaster"}
    /\ UNCHANGED <<taRegistered, calls, resp, data, df, forecast>>

Forecast ==
    /\ pc = "augmented"
    /\ ~FitRaises(df)
    /\ forecast' = MakeFutureDataframe(df, Periods)
    /\ pc' = "forecasted"
    /\ stagesRun' = stagesRun \cup {"forecaster"}
    /\ UNCHANGED <<taRegistered, calls, resp, data, df, status, body, failed, raised>>

(***************************************************************************)
(* 5. Return Everything (lines 78-81)                                      *)
(***************************************************************************)
\* df.reset_index().to_dict(orient="records")
Records(t) ==
    [i \in 1..Len(t.rows) |->
        [k \in t.columns \cup {"index"} |->
            IF k = "index" THEN <<t.rows[i].idx>> ELSE t.rows[i].cells[k]]]

\* rendering the answer as JSON raises on a NaN
SerializeRaises(t) ==
    \E i \in 1..Len(t.rows) : \E c \in t.columns : t.rows[i].cells[c] = <<>>

\* variant: the forecast list is left out of the answer
SuccessBody_HistoryOnly(t, f) == [historical_data |-> Records(t)]

SuccessBody(t, f) ==
    [historical_data |-> Records(t),
     forecast_data |-> [i \in 1..Len(f) |-> [ds |-> f[i]]]]

AssembleRaises ==
    /\ pc = "forecasted"
    /\ SerializeRaises(df)
    /\ Abort("ValueError", "assembler")
    /\ stagesRun' = stagesRun \cup {"assembler"}
    /\ UNCHANGED <<taRegistered, calls, resp, data, df, forecast>>

Assemble ==
    /\ pc = "forecasted"
    /\ ~SerializeRaises(df)
    /\ body' = SuccessBody(df, forecast)
    /\ status' = 200
    /\ pc' = "done"
    /\ stagesRun' = stagesRun \cup {"assembler"}
    /\ UNCHANGED <<taRegistered, calls, resp, data, df, forecast, failed, raised>>

(***************************************************************************)
(* The request                                                             *)
(***************************************************************************)
Init ==
    /\ pc = "start"
    /\ taRegistered \in BOOLEAN
    /\ calls = 0
    /\ resp = [kind |-> "none", code |-> 0, payload |-> "none"]
    /\ data = NoData
    /\ df = EmptyTable
    /\ forecast = <<>>
    /\ status = 0
    /\ body = <<>>
    /\ stagesRun = {}
    /\ failed = "none"
    /\ raised = "none"

Next ==
    \/ FetchRaises
    \/ FetchOk
    \/ NormalizeRaises
    \/ Normalize
    \/ AugmentRaises
    \/ Augment
    \/ ForecastRaises
    \/ Forecast
    \/ AssembleRaises
    \/ Assemble

Spec == Init /\ [][Next]_vars

(***************************************************************************)
(* Properties                                                              *)
(***************************************************************************)
AllStages == {"fetcher", "normalizer", "augmenter", "forecaster", "assembler"}

Is2xx(code) == 200 <= code /\ code < 300

\* the provider call failed in the transport
TransportFailed == resp.kind \in {"ConnectionError", "Timeout"}

\* the fetch ended as the 503 exit requires: answered at once, nothing else run
UnavailableExit ==
    /\ pc = "done"
    /\ status = 503
    /\ DOMAIN body = {"detail"}
    /\ stagesRun = {"fetcher"}
    /\ calls = 1

\* C1 as stated: a connection error, a timeout or any non-2xx status of the
\* provider ends the request with 503 and a detail message, with no later
\* stage run and no second provider call.
C1_AnyNon2xxGives503 ==
    (TransportFailed \/ (resp.kind = "response" /\ ~Is2xx(resp.code))) => UnavailableExit

\* C1 amended: a connection error, a timeout or a 4xx/5xx status of the
\* provider ends the request with 503 and a detail message, with no later
\* stage run and no second provider call.
C1_ErrorStatusGives503 ==
    (TransportFailed \/ (resp.kind = "response" /\ resp.code \in 400..599)) => UnavailableExit

C1_Witness ==
    /\ resp.kind = "response" /\ resp.code = 429
    /\ pc = "done" /\ status = 503 /\ calls = 1

\* the provider answered 2xx with a JSON object that lacks "Time Series (Daily)"
KeyAbsent == resp.kind = "response" /\ Is2xx(resp.code) /\ resp.payload = "ObjectNoKey"

\* C2: a 2xx answer whose JSON object lacks the time-series key ends the
\* request with 404 and a detail message, and no request that failed in the
\* transport or on a 4xx/5xx status is answered with that status.
C2_KeyAbsentGives404 ==
    /\ KeyAbsent => (pc = "done" /\ status = 404 /\ DOMAIN body = {"detail"})
    /\ (TransportFailed \/ (resp.kind = "response" /\ resp.code \in 400..599)) => status # 404

C2_Witness == KeyAbsent /\ pc = "done" /\ status = 404

\* C3: the answer is all-or-nothing: nothing is answered while the pipeline
\* runs; a finished request either answers 200 with both historical_data and
\* forecast_data after every stage completed, or answers an error that holds
\* neither list.
C3_AllOrNothing ==
    /\ pc # "done" => (status = 0 /\ body = <<>> /\ failed = "none")
    /\ pc = "done" =>
          \/ /\ status = 200
             /\ DOMAIN body = {"historical_data", "forecast_data"}
             /\ failed = "none"
             /\ stagesRun = AllStages
          \/ /\ status \in {404, 500, 503}
             /\ failed # "none"
             /\ DOMAIN body \cap {"historical_data", "forecast_data"} = {}

C3_Witness ==
    /\ pc = "done" /\ status = 200
    /\ Len(body.historical_data) = MaxRows
    /\ Len(body.forecast_data) > Len(body.historical_data)

\* C4: once the fetch has run, the request has made exactly one provider
\* call, whether the call failed or succeeded, and it never makes another.
C4_OneProviderCall ==
    /\ pc = "start" => calls = 0
    /\ pc # "start" => calls = 1

C4_Witness == pc = "done" /\ raised = "Timeout" /\ status = 503 /\ calls = 1

\* the provider answered 2xx with a JSON object
FetchedObject ==
    resp.kind = "response" /\ Is2xx(resp.code) /\ resp.payload \in {"ObjectNoKey", "ObjectWithKey"}

\* the object has the key, but its value is not a mapping from date strings to
\* mappings that carry the six field labels
ShapeDeviates ==
    /\ resp.payload = "ObjectWithKey"
    /\ \/ ~data.mapping
       \/ \E i \in 1..Len(data.entries) :
             \/ ~ValidDate(data.entries[i].date)
             \/ ~(SixLabels \subseteq DOMAIN data.entries[i].fields)

\* C5 as stated: every fetched response that deviates from the upstream shape
\* (key absent, value no mapping of dates to field mappings, an entry lacking
\* one of the six labels) is answered 404.
C5_AnyDeviationGives404 ==
    (pc = "done" /\ FetchedObject /\ (resp.payload = "ObjectNoKey" \/ ShapeDeviates))
        => status = 404

\* C5 amended: a fetched JSON object is answered 404 exactly when the
\* time-series key is absent; a response that has the key and deviates from
\* the shape in another way is never answered 404.
C5_Only404WhenKeyAbsent ==
    (pc = "done" /\ FetchedObject) => (status = 404 <=> resp.payload = "ObjectNoKey")

C5_Witness ==
    /\ pc = "done" /\ FetchedObject /\ ShapeDeviates
    /\ data.mapping /\ \A i \in 1..Len(data.entries) : ValidDate(data.entries[i].date)
    /\ status = 200

\* the normalizer has completed: df holds the Normalized Table
NormalizerDone == "normalizer" \in stagesRun /\ failed # "normalizer"

\* a payload as the upstream contract describes it
WellFormed(d) ==
    /\ d.mapping
    /\ \A i \in 1..Len(d.entries) :
          /\ ValidDate(d.entries[i].date)
          /\ DOMAIN d.entries[i].fields = SixLabels
          /\ \A l \in SixLabels : IsNumericString(d.entries[i].fields[l])

\* the canonical name of each of the six provider labels
Canonical ==
    [l \in SixLabels |->
        CASE l = "1. open" -> "open" [] l = "2. high" -> "high" [] l = "3. low" -> "low"
          [] l = "4. close" -> "close" [] l = "5. adjusted close" -> "adj_close"
          [] l = "6. volume" -> "volume"]

\* C6: for a well-formed payload in any provider order, the Normalized Table
\* is strictly ascending by date, has exactly the dates of the payload, one
\* row each, and every row holds the values of its own date.
C6_SortedSameDates ==
    (NormalizerDone /\ WellFormed(data)) =>
        /\ \A i \in 1..(Len(df.rows) - 1) : df.rows[i].idx < df.rows[i + 1].idx
        /\ Len(df.rows) = Len(data.entries)
        /\ { df.rows[i].idx : i \in 1..Len(df.rows) }
              = { ToDatetime(data.entries[j].date) : j \in 1..Len(data.entries) }
        /\ \A j \in 1..Len(data.entries) : \E i \in 1..Len(df.rows) :
              /\ df.rows[i].idx = ToDatetime(data.entries[j].date)
              /\ \A l \in SixLabels :
                    df.rows[i].cells[Canonical[l]] = <<NumericValue[data.entries[j].fields[l]]>>

C6_Witness ==
    /\ NormalizerDone /\ WellFormed(data)
    /\ Len(data.entries) = MaxRows
    /\ data.entries[1].date = <<2024, 3, 1>>
    /\ data.entries[2].date = <<2023, 12, 31>>
    /\ df.rows[1].cells["close"] # df.rows[2].cells["close"]

\* a value of the raw series is not a numeric string
HasNonNumeric(d) ==
    \E i \in 1..Len(d.entries) : \E l \in DOMAIN d.entries[i].fields :
        ~IsNumericString(d.entries[i].fields[l])

\* C7: a non-numeric value never aborts the request in the normalizer: the
\* normalizer completes and the cell is missing in the Normalized Table.
C7_NonNumericBecomesMissing ==
    (data.mapping /\ HasNonNumeric(data) /\ "normalizer" \in stagesRun) =>
        /\ failed # "normalizer"
        /\ \E i \in 1..Len(df.rows) : \E c \in df.columns : df.rows[i].cells[c] = <<>>

\* the field labels found in the raw payload
RawLabels == UNION { DOMAIN data.entries[i].fields : i \in 1..Len(data.entries) }

CanonicalNames == { Canonical[l] : l \in SixLabels }

AnsweredDates == { body.historical_data[i]["index"][1] : i \in 1..Len(body.historical_data) }

LastAnswered == CHOOSE d \in AnsweredDates : \A e \in AnsweredDates : e <= d

ForecastCount(d) ==
    Cardinality({ i \in 1..Len(body.forecast_data) : body.forecast_data[i].ds = d })

\* C9: in a success answer the forecast rows cover every historical date and
\* then the 90 calendar days after the last one: each day from the last
\* historical date to that date plus 90 appears exactly once, and no forecast
\* row is later than the last historical date plus 90.
C9_NinetyDaysNoGaps ==
    (pc = "done" /\ status = 200) =>
        /\ \A d \in AnsweredDates : ForecastCount(d) >= 1
        /\ \A d \in LastAnswered..(LastAnswered + 90) : ForecastCount(d) = 1
        /\ \A i \in 1..Len(body.forecast_data) :
              /\ body.forecast_data[i].ds <= LastAnswered + 90
              /\ body.forecast_data[i].ds \in AnsweredDates
                    \cup (LastAnswered + 1)..(LastAnswered + 90)

C9_Witness ==
    /\ pc = "done" /\ status = 200
    /\ Len(body.historical_data) = MaxRows
    /\ Len(body.forecast_data) = MaxRows + 90
    /\ body.forecast_data[Len(body.forecast_data)].ds = ToDatetime(<<2024, 5, 30>>)

\* C10 as stated: every request ends with 503, 404 or 200, whatever fails.
C10_ThreeExits == pc = "done" => status \in {503, 404, 200}

\* the stages a request has entered when stage s is the last one
UpTo(s) ==
    CASE s = "fetcher" -> {"fetcher"}
      [] s = "normalizer" -> {"fetcher", "normalizer"}
      [] s = "augmenter" -> {"fetcher", "normalizer", "augmenter"}
      [] s = "forecaster" -> {"fetcher", "normalizer", "augmenter", "forecaster"}
      [] s = "assembler" -> AllStages

\* C10 amended: the handler is a linear pipeline with four ways to end: 503
\* when the fetch raises a RequestException, 404 when the fetch raises
\* KeyError, 200 with both lists when every stage completed, and 500 when
\* anything else is raised, in the fetch or in a later stage (normalizing,
\* indicators, forecast, serialization); the stages run in order up to the
\* one that ended the request.
C10_FourExits ==
    pc = "done" =>
        \/ /\ status = 503 /\ failed = "fetcher" /\ raised \in RequestExceptions
           /\ stagesRun = {"fetcher"}
        \/ /\ status = 404 /\ failed = "fetcher" /\ raised = "KeyError"
           /\ stagesRun = {"fetcher"}
        \/ /\ status = 200 /\ failed = "none" /\ raised = "none"
           /\ stagesRun = AllStages
           /\ DOMAIN body = {"historical_data", "forecast_data"}
        \/ /\ status = 500 /\ failed \in AllStages
           /\ raised \notin RequestExceptions \cup {"KeyError", "none"}
           /\ stagesRun = UpTo(failed)

C10_Witness == pc = "done" /\ status = 500 /\ failed = "forecaster" /\ taRegistered

====
